---- MODULE Spec2Model ----
(***************************************************************************)
(* Model of the johnjeong terminal viewer (cli/src/main.rs): the session   *)
(* set-up and tear-down of main, the event loop of run_app, the key table  *)
(* of handle_key, the navigation transitions on AppState, the state that a *)
(* render pass recomputes, and the text layout functions it uses.          *)
(*                                                                         *)
(* Text is a sequence of characters, each a string, so that lengths,       *)
(* prefixes and word boundaries are computed, not assumed.  Labels, titles *)
(* and status messages, which the code only copies and concatenates, are   *)
(* strings.                                                                *)
(***************************************************************************)
EXTENDS Integers, Sequences, FiniteSets, TLC

VARIABLES
    data,          \* AppData: the header and the tabs, built once
    state,         \* AppState
    size,          \* what terminal::size returns: [cols, rows]
    pc,            \* where main is
    needs_redraw,  \* run_app's dirty flag
    event,         \* what this iteration of the event loop polled
    open_result,   \* what open_url returned in this iteration, if called
    result,        \* run_app's result, then what main returns
    term_ops,      \* the terminal mode calls main has made
    raw_mode,      \* whether the terminal is in raw mode
    call           \* a call of a text layout function: its arguments and result

vars ==
    <<data, state, size, pc, needs_redraw, event, open_result, result, term_ops, raw_mode,
      call>>

\* ------------------------------------------------------------------ bounds

\* Largest number of posts a listing tab is loaded with.
MaxPosts == 3

\* Largest number of images the gallery tab is loaded with.
MaxImages == 2

\* Tallest terminal, in rows.
MaxRows == 16

\* ------------------------------------------------------- integer helpers

Min(a, b) == IF a <= b THEN a ELSE b

Max(a, b) == IF a >= b THEN a ELSE b

\* usize::saturating_sub and u16::saturating_sub
saturating_sub(a, b) == IF a >= b THEN a - b ELSE 0

\* ----------------------------------------------------------- text helpers

\* char::is_whitespace, on the characters the model's texts use
is_whitespace(c) == c \in {" ", "\t", "\n", "\r"}

\* The number of bytes of a character's UTF-8 encoding.  The two characters
\* outside ASCII that the texts use are written by name: "ELLIPSIS" is
\* U+2026 (three bytes) and "E_ACUTE" is U+00E9 (two bytes).
len_utf8(c) == IF c = "ELLIPSIS" THEN 3 ELSE IF c = "E_ACUTE" THEN 2 ELSE 1

RECURSIVE len(_)
\* str::len: the length of a text in bytes
len(s) == IF s = <<>> THEN 0 ELSE len_utf8(Head(s)) + len(Tail(s))

RECURSIVE trim_start(_)
trim_start(s) == IF s # <<>> /\ is_whitespace(Head(s)) THEN trim_start(Tail(s)) ELSE s

RECURSIVE trim_end(_)
trim_end(s) ==
    IF s # <<>> /\ is_whitespace(s[Len(s)]) THEN trim_end(SubSeq(s, 1, Len(s) - 1)) ELSE s

trim(s) == trim_start(trim_end(s))

starts_with(s, p) == Len(s) >= Len(p) /\ SubSeq(s, 1, Len(p)) = p

RECURSIVE split_at(_, _, _, _)
\* The pieces of s between the characters that satisfy the separator test
\* sep: "ws" for whitespace (empty pieces dropped), "nl" for line feeds.
split_at(s, sep, cur, acc) ==
    IF s = <<>>
    THEN IF cur = <<>> THEN acc ELSE Append(acc, cur)
    ELSE IF sep = "ws" /\ is_whitespace(Head(s))
         THEN split_at(Tail(s), sep, <<>>, IF cur = <<>> THEN acc ELSE Append(acc, cur))
         ELSE IF sep = "nl" /\ Head(s) = "\n"
              THEN split_at(Tail(s), sep, <<>>, Append(acc, cur))
              ELSE split_at(Tail(s), sep, Append(cur, Head(s)), acc)

\* str::split_whitespace
split_whitespace(s) == split_at(s, "ws", <<>>, <<>>)

\* str::lines: split on line feeds, a final line feed ends the last line, and
\* a carriage return before a line feed belongs to the line ending.
lines_of(text) ==
    LET raw == split_at(text, "nl", <<>>, <<>>)
        strip(l) == IF l # <<>> /\ l[Len(l)] = "\r" THEN SubSeq(l, 1, Len(l) - 1) ELSE l
    IN  [i \in 1..Len(raw) |-> strip(raw[i])]

\* " ".repeat(n)
spaces(n) == [i \in 1..n |-> " "]

RECURSIVE wrap_words(_, _, _, _, _, _, _)
\* The loop of wrap_line over the words still to place.
wrap_words(words, width, prefix, indent, lines, current, first) ==
    IF words = <<>>
    THEN <<lines, current>>
    ELSE LET word == Head(words)
             prefix_now == IF first THEN prefix ELSE indent
         IN  IF current = <<>>
             THEN wrap_words(Tail(words), width, prefix, indent, lines,
                             prefix_now \o word, FALSE)
             ELSE IF len(current) + 1 + len(word) <= width
                  THEN wrap_words(Tail(words), width, prefix, indent, lines,
                                  current \o <<" ">> \o word, first)
                  ELSE wrap_words(Tail(words), width, prefix, indent,
                                  Append(lines, current), prefix_now \o word, first)

\* wrap_line, had it not pushed the line in progress at the end
wrap_line_drop_last(text, width, prefix) ==
    LET indent == spaces(len(prefix))
        done == wrap_words(split_whitespace(text), width, prefix, indent, <<>>, <<>>, TRUE)
        lines == done[1]
    IN  IF lines = <<>> THEN <<prefix>> ELSE lines

wrap_line(text, width, prefix) ==
    LET indent == spaces(len(prefix))
        done == wrap_words(split_whitespace(text), width, prefix, indent, <<>>, <<>>, TRUE)
        lines == IF done[2] # <<>> THEN Append(done[1], done[2]) ELSE done[1]
    IN  IF lines = <<>> THEN <<prefix>> ELSE lines

RECURSIVE wrap_raw_lines_keep_marker(_, _)
\* wrap_raw_lines, had it wrapped a bullet line together with its marker
wrap_raw_lines_keep_marker(raws, width) ==
    IF raws = <<>>
    THEN <<>>
    ELSE LET raw == Head(raws)
             trimmed == trim_end(raw)
             out == IF trim(raw) = <<>>
                    THEN << <<>> >>
                    ELSE IF starts_with(trimmed, <<"-", " ">>) \/ starts_with(trimmed, <<"*", " ">>)
                         THEN wrap_line(trimmed, width, SubSeq(trimmed, 1, 2))
                         ELSE wrap_line(trimmed, width, <<>>)
         IN  out \o wrap_raw_lines_keep_marker(Tail(raws), width)

RECURSIVE wrap_raw_lines(_, _)
\* The loop of wrap_markdown over the source lines.
wrap_raw_lines(raws, width) ==
    IF raws = <<>>
    THEN <<>>
    ELSE LET raw == Head(raws)
             trimmed == trim_end(raw)
             out == IF trim(raw) = <<>>
                    THEN << <<>> >>
                    ELSE IF starts_with(trimmed, <<"-", " ">>) \/ starts_with(trimmed, <<"*", " ">>)
                         THEN wrap_line(trim(SubSeq(trimmed, 3, Len(trimmed))), width,
                                        SubSeq(trimmed, 1, 2))
                         ELSE wrap_line(trimmed, width, <<>>)
         IN  out \o wrap_raw_lines(Tail(raws), width)

\* wrap_markdown, had it taken the width as given
wrap_markdown_any_width(text, width) == wrap_raw_lines(lines_of(text), width)

wrap_markdown(text, width) == wrap_raw_lines(lines_of(text), Max(width, 10))

\* clamp_text: the text itself if its byte length is within max_width, else
\* its first max_width - 1 characters and an ellipsis
clamp_text(text, max_width) ==
    IF len(text) <= max_width
    THEN text
    ELSE SubSeq(text, 1, Min(Len(text), saturating_sub(max_width, 1))) \o <<"ELLIPSIS">>

\* ------------------------------------------------------------ the content

\* Text of a body, written character by character.
BodyAlpha ==
    <<"-"," ","o","n","e"," ","t","w","o"," ","t","h","r","e","e","\n",
      "a","l","p","h","a"," ","b","e","t","a","\n","\n","g","a","m","m","a">>

BodyBeta == <<"s","h","o","r","t">>

BodyGamma == <<"a","a"," ","b","b"," ","c","c"," ","d","d"," ","e","e"," ","f","f">>

BodyImage == <<"I","m","a","g","e"," ","f","i","l","e",":"," ","/","g","/","a",".","p","n","g">>

\* Posts as load_posts builds them, in descending order of sort_key (the
\* date); the loader's ordering itself is outside the model.
PostPool ==
    << [title |-> "Alpha", date |-> "2024-01-01", body |-> BodyAlpha,
        url |-> "https://johnjeong.com/essays/alpha"],
       [title |-> "Beta", date |-> "2023-05-05", body |-> BodyBeta,
        url |-> "https://johnjeong.com/essays/beta"],
       [title |-> "Gamma", date |-> "2022-02-02", body |-> BodyGamma,
        url |-> "https://johnjeong.com/essays/gamma"],
       [title |-> "Delta", date |-> "2021-01-01", body |-> BodyBeta,
        url |-> "https://johnjeong.com/essays/delta"] >>

\* Posts as load_gallery builds them: no date, the file name as the title.
ImagePool ==
    << [title |-> "a", date |-> "", body |-> BodyImage, url |-> "/g/a.png"],
       [title |-> "b", date |-> "", body |-> BodyGamma, url |-> "/g/b.png"],
       [title |-> "c", date |-> "", body |-> BodyAlpha, url |-> "/g/c.png"] >>

Take(pool, n) == SubSeq(pool, 1, Min(n, Len(pool)))

ABOUT_LINKS ==
    << [label |-> "LinkedIn", url |-> "https://www.linkedin.com/in/johntopia/"],
       [label |-> "X (Twitter)", url |-> "https://x.com/computeless"],
       [label |-> "GitHub", url |-> "https://github.com/ComputelessComputer"],
       [label |-> "Email", url |-> "mailto:john@hyprnote.com"] >>

\* Option<String>: None is <<>>, Some(s) is <<s>>.
None == <<>>

Some(s) == <<s>>

ContentMissing ==
    "Content directory not found. Set JOHNJEONG_CONTENT_DIR to your part-of-my-brain path."

ContentTab(name, description, posts) ==
    [kind |-> "Content", name |-> name, description |-> description, posts |-> posts]

\* The AppData and the start-up status of build_app_data, from what the
\* loaders returned; essays_ok is whether the essays were loaded at all.
build_app_data(essays_ok, essays, journals, inspirations, lessons, gallery) ==
    [data |->
        [header |-> [title |-> "John Jeong", subtitle |-> "Co-founder & Co-CEO at Hyprnote"],
         tabs |-> << [kind |-> "About", tagline |-> "I like simple & intuitive stuff.",
                      links |-> ABOUT_LINKS],
                     ContentTab("Essays", "Long-form writing.",
                                IF essays_ok THEN essays ELSE <<>>),
                     ContentTab("Daily Logs", "Daily notes and logs.", journals),
                     ContentTab("Inspirations", "Talks, podcasts, and ideas that shaped me.",
                                inspirations),
                     ContentTab("Lessons", "Learning notes and highlights.", lessons),
                     ContentTab("Gallery", "Photos I took.", gallery) >>],
     status |-> IF essays_ok THEN None ELSE Some(ContentMissing)]

\* data.tabs.get(i) for a zero-based i; <<>> stands for None.
tab_at(d, i) == IF i < Len(d.tabs) THEN <<d.tabs[i + 1]>> ELSE <<>>

\* slice.get(i) for a zero-based i
get(seq, i) == IF i < Len(seq) THEN <<seq[i + 1]>> ELSE <<>>

list_length(d, tab_index) ==
    LET t == tab_at(d, tab_index)
    IN  IF t = <<>> THEN 0
        ELSE IF t[1].kind = "About" THEN Len(t[1].links) ELSE Len(t[1].posts)

\* -------------------------------------------------- navigation transitions

\* switch_tab, had it left the list window where it was
\* switch_tab, had it not compared the index with the number of tabs
switch_tab_unchecked(st, index, total) ==
    [st EXCEPT !.tab_index = index, !.list_index = 0, !.list_scroll = 0,
               !.content_scroll = 0, !.content_scroll_max = 0, !.status = None]

switch_tab_keep_scroll(st, index, total) ==
    IF index >= total
    THEN st
    ELSE [st EXCEPT !.tab_index = index, !.list_index = 0,
                    !.content_scroll = 0, !.content_scroll_max = 0, !.status = None]

switch_tab(st, index, total) ==
    IF index >= total
    THEN st
    ELSE [st EXCEPT !.tab_index = index, !.list_index = 0, !.list_scroll = 0,
                    !.content_scroll = 0, !.content_scroll_max = 0, !.status = None]

\* move_selection, had it stopped at the last item instead of wrapping
move_selection_no_wrap_end(d, st, delta) ==
    LET max == list_length(d, st.tab_index)
        next == st.list_index + delta
    IN  IF max = 0
        THEN [st EXCEPT !.list_index = 0]
        ELSE [st EXCEPT !.list_index = IF next < 0 THEN max - 1 ELSE next,
                        !.content_scroll = 0, !.content_scroll_max = 0]

\* move_selection, had it stopped at the first item instead of wrapping
move_selection_clamp_top(d, st, delta) ==
    LET max == list_length(d, st.tab_index)
        next == st.list_index + delta
    IN  IF max = 0
        THEN [st EXCEPT !.list_index = 0]
        ELSE [st EXCEPT !.list_index = IF next < 0 THEN 0
                                       ELSE IF next >= max THEN 0 ELSE next,
                        !.content_scroll = 0, !.content_scroll_max = 0]

\* The i32 arithmetic cannot overflow on the lists the model loads.
move_selection(d, st, delta) ==
    LET max == list_length(d, st.tab_index)
        next == st.list_index + delta
    IN  IF max = 0
        THEN [st EXCEPT !.list_index = 0]
        ELSE [st EXCEPT !.list_index = IF next < 0 THEN max - 1
                                       ELSE IF next >= max THEN 0 ELSE next,
                        !.content_scroll = 0, !.content_scroll_max = 0]

\* scroll_content, had it not clamped at content_scroll_max
scroll_content_no_upper(st, delta) ==
    LET next == st.content_scroll + delta
    IN  [st EXCEPT !.content_scroll = IF next < 0 THEN 0 ELSE next]

scroll_content(st, delta) ==
    LET max == st.content_scroll_max
        next == st.content_scroll + delta
    IN  [st EXCEPT !.content_scroll = IF next < 0 THEN 0
                                      ELSE IF next > max THEN max ELSE next]

\* open_status, had it reported every result as a success
open_status_always_ok(label, res) == "Opened " \o label

\* The status message for the result res of open_url: "Ok" or the error text.
open_status(label, res) ==
    IF res = "Ok"
    THEN "Opened " \o label
    ELSE "Failed to open " \o label \o " (" \o res \o ")"

\* The link or the post that state.tab_index and state.list_index select,
\* with the label its status message uses; <<>> when there is none.
selected(d, st) ==
    LET t == tab_at(d, st.tab_index)
    IN  IF t = <<>> THEN <<>>
        ELSE IF t[1].kind = "About"
             THEN LET link == get(t[1].links, st.list_index)
                  IN  IF link = <<>> THEN <<>>
                      ELSE <<[label |-> link[1].label, url |-> link[1].url]>>
             ELSE LET post == get(t[1].posts, st.list_index)
                  IN  IF post = <<>> THEN <<>>
                      ELSE <<[label |-> post[1].title, url |-> post[1].url]>>

open_selected(d, st, res) ==
    LET item == selected(d, st)
    IN  IF item = <<>> THEN st
        ELSE [st EXCEPT !.status = Some(open_status(item[1].label, res))]

\* ---------------------------------------------------------- the render pass

content_top == 6

\* The first row of the list and the number of rows it may fill.
list_height(rows, list_y) == saturating_sub(rows, list_y + 3)

\* clamp_scroll, had it scrolled down one row too few
clamp_scroll_off_by_one(scroll, index, height, total) ==
    IF total <= height THEN 0
    ELSE IF index < scroll THEN index
    ELSE IF index >= scroll + height
         THEN saturating_sub(index, height)
    ELSE Min(scroll, saturating_sub(total, height))

\* clamp_scroll, had it never scrolled down to the selection
\* clamp_scroll, had it kept a window that still holds the selection
clamp_scroll_keep_window(scroll, index, height, total) ==
    IF total <= height THEN 0
    ELSE IF index < scroll THEN index
    ELSE IF index >= scroll + height
         THEN saturating_sub(index, saturating_sub(height, 1))
         ELSE scroll

clamp_scroll_no_down(scroll, index, height, total) ==
    IF total <= height THEN 0
    ELSE IF index < scroll THEN index
    ELSE Min(scroll, saturating_sub(total, height))

clamp_scroll(scroll, index, height, total) ==
    IF total <= height THEN 0
    ELSE IF index < scroll THEN index
    ELSE IF index >= scroll + height
         THEN saturating_sub(index, saturating_sub(height, 1))
    ELSE Min(scroll, saturating_sub(total, height))

render_about(st, about, max_width, rows, top) ==
    LET list_y == top + 2
    IN  [st EXCEPT !.list_scroll =
            clamp_scroll(st.list_scroll, st.list_index, list_height(rows, list_y),
                         Len(about.links))]

\* ((max_width as f32) * 0.33) as usize, clamped to 24..38; the product is
\* exact in f32 for every width below the upper clamp.
list_width(max_width) == Min(Max((max_width * 33) \div 100, 24), 38)

\* The column and the width of the detail pane.
content_x(max_width) == Min(2 + list_width(max_width) + 2, max_width)

content_width(max_width) == Max(saturating_sub(max_width, content_x(max_width) + 1), 10)

\* The row of the first body line: below the title and the date line.
body_y(post, list_y) == (list_y - 1) + 1 + (IF post.date # "" THEN 1 ELSE 0)

\* The rows the detail pane leaves for the wrapped body.
available(post, rows, list_y) == saturating_sub(rows, body_y(post, list_y) + 2)

\* The part of render_content_tab that draws the list pane.
\* render_content_list, had it moved the selection to the top of the window
render_content_list_moves_selection(st, tab, max_width, rows, top) ==
    LET list_y == top + 3
        scroll == clamp_scroll(st.list_scroll, st.list_index, list_height(rows, list_y),
                               Len(tab.posts))
    IN  [st EXCEPT !.list_scroll = scroll, !.list_index = scroll]

render_content_list(st, tab, max_width, rows, top) ==
    LET list_y == top + 3
    IN  [st EXCEPT !.list_scroll =
            clamp_scroll(st.list_scroll, st.list_index, list_height(rows, list_y),
                         Len(tab.posts))]

\* render_content_detail, had it left content_scroll as it found it
render_content_detail_no_clamp(st, tab, max_width, rows, top) ==
    LET list_y == top + 3
        post == get(tab.posts, st.list_index)
    IN  IF post = <<>>
        THEN [st EXCEPT !.content_scroll_max = 0]
        ELSE LET lines == wrap_markdown(post[1].body, content_width(max_width))
                 max == saturating_sub(Len(lines), available(post[1], rows, list_y))
             IN  [st EXCEPT !.content_scroll_max = max]

\* The part of render_content_tab that draws the detail pane.
render_content_detail(st, tab, max_width, rows, top) ==
    LET list_y == top + 3
        post == get(tab.posts, st.list_index)
    IN  IF post = <<>>
        THEN [st EXCEPT !.content_scroll_max = 0]
        ELSE LET lines == wrap_markdown(post[1].body, content_width(max_width))
                 max == saturating_sub(Len(lines), available(post[1], rows, list_y))
             IN  [st EXCEPT !.content_scroll_max = max,
                            !.content_scroll = IF @ > max THEN max ELSE @]

render_content_tab(st, tab, max_width, rows, top) ==
    render_content_detail(render_content_list(st, tab, max_width, rows, top),
                          tab, max_width, rows, top)

\* The rows on which render_about or render_content_tab draws list rows,
\* given the AppState that the pass leaves: the items from list_scroll on,
\* at most list_height of them, from row list_y down.
list_rows(d, st, sz) ==
    LET t == tab_at(d, st.tab_index)
    IN  IF t = <<>> THEN {}
        ELSE LET list_y == IF t[1].kind = "About" THEN content_top + 2 ELSE content_top + 3
                 total == list_length(d, st.tab_index)
                 shown == Min(total, st.list_scroll + list_height(sz.rows, list_y))
             IN  {list_y + (idx - st.list_scroll) : idx \in st.list_scroll..(shown - 1)}

\* The rows on which render_content_tab draws body lines, given the
\* AppState that the pass leaves: the lines from content_scroll on, at most
\* available of them, one row each from the row below the title and date;
\* the loop stops after a line that leaves y at rows - 2 or below it.
body_rows(d, st, sz) ==
    LET t == tab_at(d, st.tab_index)
        max_width == saturating_sub(sz.cols, 4)
    IN  IF t = <<>> \/ t[1].kind = "About" THEN {}
        ELSE LET list_y == content_top + 3
                 post == get(t[1].posts, st.list_index)
             IN  IF post = <<>> THEN {}
                 ELSE LET y == body_y(post[1], list_y)
                          lines == wrap_markdown(post[1].body, content_width(max_width))
                          taken == Min(saturating_sub(Len(lines), st.content_scroll),
                                       available(post[1], sz.rows, list_y))
                      IN  {y + k : k \in {j \in 0..(taken - 1) :
                                             j = 0 \/ y + j < saturating_sub(sz.rows, 2)}}

\* The row of the status message and the row of the help line.
status_row(sz) == saturating_sub(sz.rows, 3)

help_row(sz) == saturating_sub(sz.rows, 2)

\* The AppState a render pass leaves when its terminal I/O fails at point
\* fail: "size" (terminal::size, before anything is drawn), "list" (a write
\* after the list pane), "flush" (the final flush), or "none" (no failure).
render(d, st, sz, fail) ==
    LET max_width == saturating_sub(sz.cols, 4)
        t == tab_at(d, st.tab_index)
    IN  IF fail = "size" \/ t = <<>> THEN st
        ELSE IF t[1].kind = "About"
             THEN render_about(st, t[1], max_width, sz.rows, content_top)
             ELSE IF fail = "list"
                  THEN render_content_list(st, t[1], max_width, sz.rows, content_top)
                  ELSE render_content_tab(st, t[1], max_width, sz.rows, content_top)

\* ------------------------------------------------------------- the key table

\* KeyEvent: the key code and whether the CONTROL modifier is held.
Key(code, ctrl) == [kind |-> "Key", code |-> code, ctrl |-> ctrl]

KeyCodes ==
    {"q", "Esc", "c", "1", "2", "3", "4", "5", "6", "g", "Up", "k", "Down", "j",
     "PageUp", "PageDown", "Home", "t", "G", "o", "Enter", "x"}

Keys == {Key(c, FALSE) : c \in KeyCodes} \cup {Key("c", TRUE)}

\* is_quit, had the CONTROL guard of the c arm been left out
is_quit_plain_c(key) == key.code \in {"q", "Esc", "c"}

\* The keys on which handle_key returns Ok(true).
is_quit(key) == key.code \in {"q", "Esc"} \/ (key.code = "c" /\ key.ctrl)

\* Whether handle_key calls open_url.
opens(key, d, st) ==
    ~is_quit(key) /\ key.code \in {"o", "Enter"} /\ selected(d, st) # <<>>

\* handle_key, had g been bound to the fifth tab
handle_key_g_fifth(key, d, st, res) ==
    LET total == Len(d.tabs)
        go(s) == [quit |-> FALSE, state |-> s]
    IN  CASE is_quit(key) -> [quit |-> TRUE, state |-> st]
          [] key.code = "1" -> go(switch_tab(st, 0, total))
          [] key.code = "2" -> go(switch_tab(st, 1, total))
          [] key.code = "3" -> go(switch_tab(st, 2, total))
          [] key.code = "4" -> go(switch_tab(st, 3, total))
          [] key.code = "5" -> go(switch_tab(st, 4, total))
          [] key.code = "6" -> go(switch_tab(st, 5, total))
          [] key.code = "g" -> go(switch_tab(st, 4, total))
          [] key.code \in {"Up", "k"} -> go(move_selection(d, st, -1))
          [] key.code \in {"Down", "j"} -> go(move_selection(d, st, 1))
          [] key.code = "PageUp" -> go(scroll_content(st, -10))
          [] key.code = "PageDown" -> go(scroll_content(st, 10))
          [] key.code \in {"Home", "t"} -> go([st EXCEPT !.content_scroll = 0])
          [] key.code = "G" -> go([st EXCEPT !.content_scroll = st.content_scroll_max])
          [] key.code \in {"o", "Enter"} -> go(open_selected(d, st, res))
          [] OTHER -> go(st)

\* What handle_key returns (quit) and the AppState it leaves; res is the
\* result of open_url, should the key open something.
handle_key(key, d, st, res) ==
    LET total == Len(d.tabs)
        go(s) == [quit |-> FALSE, state |-> s]
    IN  CASE is_quit(key) -> [quit |-> TRUE, state |-> st]
          [] key.code = "1" -> go(switch_tab(st, 0, total))
          [] key.code = "2" -> go(switch_tab(st, 1, total))
          [] key.code = "3" -> go(switch_tab(st, 2, total))
          [] key.code = "4" -> go(switch_tab(st, 3, total))
          [] key.code = "5" -> go(switch_tab(st, 4, total))
          [] key.code = "6" -> go(switch_tab(st, 5, total))
          [] key.code = "g" -> go(switch_tab(st, 5, total))
          [] key.code \in {"Up", "k"} -> go(move_selection(d, st, -1))
          [] key.code \in {"Down", "j"} -> go(move_selection(d, st, 1))
          [] key.code = "PageUp" -> go(scroll_content(st, -10))
          [] key.code = "PageDown" -> go(scroll_content(st, 10))
          [] key.code \in {"Home", "t"} -> go([st EXCEPT !.content_scroll = 0])
          [] key.code = "G" -> go([st EXCEPT !.content_scroll = st.content_scroll_max])
          [] key.code \in {"o", "Enter"} -> go(open_selected(d, st, res))
          [] OTHER -> go(st)

\* ---------------------------------------------------------------- the session

\* What the current iteration of the event loop got from event::poll and
\* event::read; the render pass that starts the next iteration finds none.
NoEvent == [kind |-> "None", code |-> "", ctrl |-> FALSE]

\* No layout function has been called on its own: a session runs.
NoCall == [fn |-> "none", text |-> <<>>, width |-> 0, out |-> <<>>]

Timeout == [kind |-> "Timeout", code |-> "", ctrl |-> FALSE]

Resize == [kind |-> "Resize", code |-> "", ctrl |-> FALSE]

\* A mouse, focus or paste event.
OtherEvent == [kind |-> "Other", code |-> "", ctrl |-> FALSE]

\* An io::Error, which ends run_app.
IoError == [kind |-> "IoError", code |-> "", ctrl |-> FALSE]

\* The results of open_url.
OpenResults == {"Ok", "No such file or directory (os error 2)"}

TermCols == {40, 50}

TermRows == {MaxRows - 5, MaxRows - 3, MaxRows - 2, MaxRows}

TermSizes == [cols : TermCols, rows : TermRows]

Init ==
    /\ \E essays_ok \in BOOLEAN, n \in 0..MaxPosts :
         LET built == build_app_data(essays_ok, Take(PostPool, n), <<>>,
                                     Take(PostPool, 1), <<>>,
                                     Take(ImagePool, Min(n, MaxImages)))
         IN  /\ data = built.data
             /\ state = [tab_index |-> 0, list_index |-> 0, list_scroll |-> 0,
                         content_scroll |-> 0, content_scroll_max |-> 0,
                         status |-> built.status]
    /\ size \in TermSizes
    /\ pc = "enable_raw"
    /\ needs_redraw = TRUE
    /\ event = NoEvent
    /\ open_result = None
    /\ result = None
    /\ term_ops = {}
    /\ raw_mode = FALSE
    /\ call = NoCall

\* main: terminal::enable_raw_mode()?
EnableRawMode ==
    /\ pc = "enable_raw"
    /\ term_ops' = term_ops \cup {"enable_raw_mode"}
    /\ \E ok \in BOOLEAN :
         IF ok
         THEN raw_mode' = TRUE /\ pc' = "enter_screen" /\ UNCHANGED result
         ELSE raw_mode' = FALSE /\ pc' = "exit" /\ result' = Some("Err")
    /\ UNCHANGED <<call, data, state, size, needs_redraw, event, open_result>>

\* main: execute!(stdout, EnterAlternateScreen, Hide)?
EnterAlternateScreen ==
    /\ pc = "enter_screen"
    /\ term_ops' = term_ops \cup {"EnterAlternateScreen"}
    /\ \E ok \in BOOLEAN :
         IF ok
         THEN pc' = "run_app" /\ UNCHANGED result
         ELSE pc' = "exit" /\ result' = Some("Err")
    /\ UNCHANGED <<call, data, state, size, needs_redraw, event, open_result, raw_mode>>

\* run_app: the render pass of a dirty frame
Render ==
    /\ pc = "run_app"
    /\ needs_redraw
    /\ \E fail \in {"none", "size", "list", "flush"} :
         /\ state' = render(data, state, size, fail)
         /\ IF fail = "none"
            THEN needs_redraw' = FALSE /\ event' = NoEvent /\ UNCHANGED <<pc, result>>
            ELSE /\ pc' = "disable_raw"
                 /\ result' = Some("Err")
                 /\ event' = IoError
                 /\ UNCHANGED needs_redraw
    /\ open_result' = None
    /\ UNCHANGED <<call, data, size, term_ops, raw_mode>>

\* PollTimeout, had a timeout marked the frame dirty
PollTimeout_dirty ==
    /\ pc = "run_app"
    /\ ~needs_redraw
    /\ event' = [kind |-> "Timeout", code |-> "", ctrl |-> FALSE]
    /\ needs_redraw' = TRUE
    /\ UNCHANGED <<call, data, state, size, pc, open_result, result, term_ops, raw_mode>>

\* run_app: event::poll returns false after 200 ms
PollTimeout ==
    /\ pc = "run_app"
    /\ ~needs_redraw
    /\ event' = Timeout
    /\ UNCHANGED <<call, data, state, size, pc, needs_redraw, open_result, result, term_ops,
                   raw_mode>>

\* run_app: event::poll or event::read fails
PollError ==
    /\ pc = "run_app"
    /\ ~needs_redraw
    /\ event' = IoError
    /\ pc' = "disable_raw"
    /\ result' = Some("Err")
    /\ UNCHANGED <<call, data, state, size, needs_redraw, open_result, term_ops, raw_mode>>

\* run_app: Event::Key
KeyEvent ==
    /\ pc = "run_app"
    /\ ~needs_redraw
    /\ \E key \in Keys, res \in OpenResults :
         LET handled == handle_key(key, data, state, res)
         IN  /\ event' = key
             /\ state' = handled.state
             /\ IF handled.quit
                THEN pc' = "disable_raw" /\ result' = Some("Ok") /\ UNCHANGED needs_redraw
                ELSE needs_redraw' = TRUE /\ UNCHANGED <<pc, result>>
             /\ open_result' = IF opens(key, data, state) THEN Some(res) ELSE None
    /\ UNCHANGED <<call, data, size, term_ops, raw_mode>>

\* ResizeEvent, had a resize left the frame clean
ResizeEvent_clean ==
    /\ pc = "run_app"
    /\ ~needs_redraw
    /\ event' = [kind |-> "Resize", code |-> "", ctrl |-> FALSE]
    /\ \E sz \in TermSizes \ {size} : size' = sz
    /\ UNCHANGED <<call, data, state, pc, needs_redraw, open_result, result, term_ops,
                   raw_mode>>

\* run_app: Event::Resize, after the terminal took another size
ResizeEvent ==
    /\ pc = "run_app"
    /\ ~needs_redraw
    /\ event' = Resize
    /\ \E sz \in TermSizes \ {size} : size' = sz
    /\ needs_redraw' = TRUE
    /\ UNCHANGED <<call, data, state, pc, open_result, result, term_ops, raw_mode>>

\* run_app: any other event
IgnoredEvent ==
    /\ pc = "run_app"
    /\ ~needs_redraw
    /\ event' = OtherEvent
    /\ UNCHANGED <<call, data, state, size, pc, needs_redraw, open_result, result, term_ops,
                   raw_mode>>

\* main: terminal::disable_raw_mode()?
DisableRawMode ==
    /\ pc = "disable_raw"
    /\ term_ops' = term_ops \cup {"disable_raw_mode"}
    /\ \E ok \in BOOLEAN :
         IF ok
         THEN raw_mode' = FALSE /\ pc' = "leave_screen" /\ UNCHANGED result
         ELSE pc' = "exit" /\ result' = Some("Err") /\ UNCHANGED raw_mode
    /\ UNCHANGED <<call, data, state, size, needs_redraw, event, open_result>>

\* main: execute!(stdout, Show, LeaveAlternateScreen)?
LeaveAlternateScreen ==
    /\ pc = "leave_screen"
    /\ term_ops' = term_ops \cup {"LeaveAlternateScreen"}
    /\ \E ok \in BOOLEAN :
         IF ok
         THEN pc' = "exit" /\ UNCHANGED result
         ELSE pc' = "exit" /\ result' = Some("Err")
    /\ UNCHANGED <<call, data, state, size, needs_redraw, event, open_result, raw_mode>>

Next ==
    \/ EnableRawMode
    \/ EnterAlternateScreen
    \/ Render
    \/ PollTimeout
    \/ PollError
    \/ KeyEvent
    \/ ResizeEvent
    \/ IgnoredEvent
    \/ DisableRawMode
    \/ LeaveAlternateScreen

Spec == Init /\ [][Next]_vars

\* ------------------------------------------------ a session with fewer tabs

\* build_app_data makes six tabs, so that no tab key is out of bounds.  To
\* exercise the bounds check of switch_tab, the same session is run on an
\* AppData that holds only the first tabs of those six.
FewerTabsInit ==
    /\ \E tabs \in 1..Len(build_app_data(TRUE, <<>>, <<>>, <<>>, <<>>, <<>>).data.tabs) :
         LET built == build_app_data(TRUE, Take(PostPool, MaxPosts), <<>>,
                                     Take(PostPool, 1), <<>>, Take(ImagePool, MaxImages))
         IN  /\ data = [built.data EXCEPT !.tabs = SubSeq(@, 1, tabs)]
             /\ state = [tab_index |-> 0, list_index |-> 0, list_scroll |-> 0,
                         content_scroll |-> 0, content_scroll_max |-> 0,
                         status |-> built.status]
    /\ size \in TermSizes
    /\ pc = "enable_raw"
    /\ needs_redraw = TRUE
    /\ event = NoEvent
    /\ open_result = None
    /\ result = None
    /\ term_ops = {}
    /\ raw_mode = FALSE
    /\ call = NoCall

FewerTabsSpec == FewerTabsInit /\ [][Next]_vars

\* ------------------------------------------------- the text layout functions

\* Most pieces a text given to a layout function is made of.
MaxTokens == 4

\* The pieces: the two bullet markers, a space, a line feed, a short word, a
\* word of four characters and five bytes, and a word longer than the widths.
Tokens ==
    { <<"-", " ">>, <<"*", " ">>, <<" ">>, <<"\n">>, <<"a", "b">>,
      <<"c", "d", "E_ACUTE", "f">>,
      <<"h", "i", "j", "k", "l", "m", "n", "o", "p", "q", "r", "s", "t">> }

RECURSIVE concat(_)
concat(pieces) == IF pieces = <<>> THEN <<>> ELSE Head(pieces) \o concat(Tail(pieces))

Texts == {concat(pieces) : pieces \in UNION {[1..n -> Tokens] : n \in 0..MaxTokens}}

\* The widths clamp_text is called with.
ClampWidths == {1, 4, 6}

\* The widths wrap_markdown is called with.
WrapWidths == {4, 10, 12}

\* The layout functions on their own: no session runs, and one call is made.
TextInit ==
    /\ data = build_app_data(TRUE, <<>>, <<>>, <<>>, <<>>, <<>>).data
    /\ state = [tab_index |-> 0, list_index |-> 0, list_scroll |-> 0,
                content_scroll |-> 0, content_scroll_max |-> 0, status |-> None]
    /\ size = [cols |-> 40, rows |-> MaxRows]
    /\ pc = "text_layout"
    /\ needs_redraw = FALSE
    /\ event = NoEvent
    /\ open_result = None
    /\ result = None
    /\ term_ops = {}
    /\ raw_mode = FALSE
    /\ call = NoCall

\* clamp_text(text, max_width)
ClampText ==
    /\ call = NoCall
    /\ \E text \in Texts, max_width \in ClampWidths :
         call' = [fn |-> "clamp_text", text |-> text, width |-> max_width,
                  out |-> <<clamp_text(text, max_width)>>]
    /\ UNCHANGED <<data, state, size, pc, needs_redraw, event, open_result, result,
                   term_ops, raw_mode>>

\* wrap_markdown(text, width)
WrapMarkdown ==
    /\ call = NoCall
    /\ \E text \in Texts, width \in WrapWidths :
         call' = [fn |-> "wrap_markdown", text |-> text, width |-> width,
                  out |-> wrap_markdown(text, width)]
    /\ UNCHANGED <<data, state, size, pc, needs_redraw, event, open_result, result,
                   term_ops, raw_mode>>

TextNext ==
    \/ ClampText
    \/ WrapMarkdown

TextSpec == TextInit /\ [][TextNext]_vars

\* ------------------------------------------------------------------ claims

\* The number of items of the active tab: links for About, posts otherwise.
ItemCount == list_length(data, state.tab_index)

\* The list height the current terminal size gives the active tab.
VisibleListHeight ==
    IF state.tab_index = 0
    THEN list_height(size.rows, content_top + 2)
    ELSE list_height(size.rows, content_top + 3)

\* The event loop is running and the frame on screen is up to date: the
\* last thing to change the AppState was a render pass.
Rendered == pc = "run_app" /\ ~needs_redraw

\* The event loop has just handled a key that did not end it.
KeyHandled == pc = "run_app" /\ needs_redraw /\ event.kind = "Key"

\* C1: in every reachable state, whatever keys, resizes and render passes
\* led to it, 0 <= content_scroll <= content_scroll_max.
C1_ContentScrollInRange ==
    /\ 0 <= state.content_scroll
    /\ state.content_scroll <= state.content_scroll_max

\* PageDown has scrolled a body that does not fit down to its last line.
C1_Witness ==
    /\ KeyHandled
    /\ event.code = "PageDown"
    /\ state.content_scroll > 0
    /\ state.content_scroll = state.content_scroll_max

\* C2: in every reachable state list_index is 0 on a tab without items and
\* a valid index of the active tab's items otherwise.
C2_ListIndexInRange ==
    IF ItemCount = 0
    THEN state.list_index = 0
    ELSE 0 <= state.list_index /\ state.list_index < ItemCount

\* Moving down from the last but one item of a listing tab selected the last.
C2_Witness ==
    /\ KeyHandled
    /\ event.code = "Down"
    /\ state.tab_index # 0
    /\ ItemCount > 1
    /\ state.list_index = ItemCount - 1

\* The selected row lies inside the list window of height h.
InWindow(h) ==
    /\ state.list_scroll <= state.list_index
    /\ state.list_index < state.list_scroll + h

\* C3 as stated: after every transition of the navigation state, key actions
\* and render passes alike, the selection is inside the list window, unless
\* all items fit, and then list_scroll = 0.
C3_AfterEveryTransition ==
    (KeyHandled \/ Rendered) =>
        IF ItemCount <= VisibleListHeight THEN state.list_scroll = 0
        ELSE InWindow(VisibleListHeight)

\* C3 as amended: after every render pass, list_scroll = 0 if all items fit;
\* otherwise the selection is inside the list window if the window has a row,
\* and list_scroll = list_index if it has none.
C3_AfterRender ==
    Rendered =>
        IF ItemCount <= VisibleListHeight THEN state.list_scroll = 0
        ELSE IF VisibleListHeight >= 1 THEN InWindow(VisibleListHeight)
        ELSE state.list_scroll = state.list_index

\* A render pass has moved the window of a list that does not fit.
C3_Witness ==
    /\ Rendered
    /\ ItemCount > VisibleListHeight
    /\ VisibleListHeight >= 1
    /\ state.list_scroll > 0
    /\ state.list_index = state.list_scroll

\* C4 as stated: after selection moves and a render pass, for every terminal
\* size, the selected row is inside the drawn window whenever the list does
\* not fit.
C4_EveryTerminalSize ==
    (Rendered /\ ItemCount > VisibleListHeight) => InWindow(VisibleListHeight)

\* C4 as amended: the same, for every terminal size that leaves the list at
\* least one row.
C4_SelectionInWindow ==
    (Rendered /\ ItemCount > VisibleListHeight /\ VisibleListHeight >= 1)
        => InWindow(VisibleListHeight)

\* A render pass has scrolled down so that the selection is the last row.
C4_Witness ==
    /\ Rendered
    /\ ItemCount > VisibleListHeight
    /\ VisibleListHeight >= 2
    /\ state.list_scroll > 0
    /\ state.list_index = state.list_scroll + VisibleListHeight - 1

\* A step of the event loop that handles a key whose code is in codes.
KeyStep(codes) ==
    /\ pc = "run_app"
    /\ ~needs_redraw
    /\ event'.kind = "Key"
    /\ event'.code \in codes

RECURSIVE MoveTimes(_, _, _)
\* The AppState after k selection moves by delta.
MoveTimes(st, delta, k) ==
    IF k = 0 THEN st ELSE MoveTimes(move_selection(data, st, delta), delta, k - 1)

\* C5: on a tab with N > 0 items a selection move by delta in {-1, +1} sets
\* list_index to (list_index + delta) mod N; N moves by +1 bring list_index
\* back to where it was, and a move by -1 from index 0 selects item N - 1.
C5_MoveWraps ==
    /\ [][(KeyStep({"Up", "k"}) /\ ItemCount > 0)
            => state'.list_index = (state.list_index - 1) % ItemCount]_vars
    /\ [][(KeyStep({"Down", "j"}) /\ ItemCount > 0)
            => state'.list_index = (state.list_index + 1) % ItemCount]_vars
    /\ [](ItemCount > 0 =>
            /\ MoveTimes(state, 1, ItemCount).list_index = state.list_index
            /\ state.list_index = 0 =>
                 move_selection(data, state, -1).list_index = ItemCount - 1)

\* Moving up from the first of several items selected the last one.
C5_Witness ==
    /\ KeyHandled
    /\ event.code = "Up"
    /\ ItemCount > 1
    /\ state.list_index = ItemCount - 1
    /\ state.list_scroll = 0

\* The tab a tab key names.
TabOfKey(code) ==
    CASE code = "1" -> 0 [] code = "2" -> 1 [] code = "3" -> 2
      [] code = "4" -> 3 [] code = "5" -> 4 [] code \in {"6", "g"} -> 5

\* The AppState a tab switch is to leave.
FreshTab(target) ==
    [tab_index |-> target, list_index |-> 0, list_scroll |-> 0, content_scroll |-> 0,
     content_scroll_max |-> 0, status |-> None]

\* C6: a switch to an in-bounds tab makes it the active tab and resets
\* list_index, list_scroll, content_scroll and content_scroll_max to 0 and
\* the status to none, whatever the state before; so a switch from tab a to
\* tab b and back leaves nothing of a's selection and scroll state.
C6_SwitchResets ==
    /\ [][KeyStep({"1", "2", "3", "4", "5", "6", "g"})
            => state' = FreshTab(TabOfKey(event'.code))]_vars
    /\ [](\A a, b \in 0..(Len(data.tabs) - 1) :
            switch_tab(switch_tab(state, b, Len(data.tabs)), a, Len(data.tabs))
                = FreshTab(a))

\* A tab key has just made the third tab the active one.
C6_Witness ==
    /\ KeyHandled
    /\ event.code = "3"
    /\ state = FreshTab(2)

\* The number a digit key carries.
DigitOfKey(code) ==
    CASE code = "1" -> 1 [] code = "2" -> 2 [] code = "3" -> 3
      [] code = "4" -> 4 [] code = "5" -> 5 [] code = "6" -> 6

\* C11: from any state, the key n, 1 <= n <= 6, makes tab n - 1 the active
\* tab, and the key g makes the last tab of AppData.tabs, the gallery, the
\* active tab.
C11_TabKeys ==
    /\ [][KeyStep({"1", "2", "3", "4", "5", "6"})
            => state'.tab_index = DigitOfKey(event'.code) - 1]_vars
    /\ [][KeyStep({"g"})
            => /\ state'.tab_index = Len(data.tabs) - 1
               /\ data.tabs[state'.tab_index + 1].name = "Gallery"]_vars

\* The key g has made the gallery the active tab.
C11_Witness ==
    /\ KeyHandled
    /\ event.code = "g"
    /\ data.tabs[state.tab_index + 1].name = "Gallery"
    /\ state.tab_index = Len(data.tabs) - 1

\* C12 as stated: for every text and every width >= 1, clamp_text's result
\* has at most width characters; it is the text itself if the text has at
\* most width characters, and otherwise the first width - 1 characters of
\* the text followed by one ellipsis.
C12_ClampByCharacters ==
    (call.fn = "clamp_text" /\ call.width >= 1) =>
        LET clipped == call.out[1]
        IN  /\ Len(clipped) <= call.width
            /\ IF Len(call.text) <= call.width
               THEN clipped = call.text
               ELSE clipped = SubSeq(call.text, 1, call.width - 1) \o <<"ELLIPSIS">>

\* An output line of wrap_markdown without its bullet marker or its indent.
StripPrefix(line) ==
    IF \/ starts_with(line, <<"-", " ">>)
       \/ starts_with(line, <<"*", " ">>)
       \/ starts_with(line, <<" ", " ">>)
    THEN SubSeq(line, 3, Len(line))
    ELSE line

\* The text is one word: it has a character and none is whitespace.
IsWord(s) == s # <<>> /\ \A i \in 1..Len(s) : ~is_whitespace(s[i])

\* C13: for every body and every width >= 10, each output line of
\* wrap_markdown, without its bullet or indent prefix, is at most width long
\* unless it is a single word longer than width, alone on its line, with
\* lengths counted in characters and, as the code counts them, in bytes; and
\* a width below 10 gives what width 10 gives.
C13_WrapWidthBound ==
    (call.fn = "wrap_markdown") =>
        /\ call.width >= 10 =>
             \A i \in 1..Len(call.out) :
                LET body == StripPrefix(call.out[i])
                IN  /\ Len(body) <= call.width \/ (IsWord(body) /\ Len(body) > call.width)
                    /\ len(body) <= call.width \/ (IsWord(body) /\ len(body) > call.width)
        /\ call.width < 10 => call.out = wrap_markdown(call.text, 10)

\* At width 10 a short word and a word of 13 characters were wrapped: the
\* long word is alone on the second line.
C13_Witness ==
    /\ call.fn = "wrap_markdown"
    /\ call.width = 10
    /\ Len(call.out) = 2
    /\ call.out[1] = <<"a", "b">>
    /\ Len(call.out[2]) = 13

\* The text is one source line that begins with a bullet marker.
IsBulletLine(text) ==
    /\ \A i \in 1..Len(text) : text[i] # "\n"
    /\ starts_with(text, <<"-", " ">>) \/ starts_with(text, <<"*", " ">>)

\* C14 as stated: the wrap of a source line that begins with "- " or "* "
\* has the two-character marker at the start of its first output line and
\* two spaces at the start of every continuation line, and packs the words
\* greedily: a line of several words is within the width, and the first word
\* of each continuation line did not fit on the line before
\* (current_length + 1 + next_word_length > width); "- one two three" at
\* width 10 gives "- one two" and "  three"; the lines of a source line
\* without a marker begin with no whitespace.
C14_BulletWrap ==
    /\ wrap_markdown(<<"-"," ","o","n","e"," ","t","w","o"," ","t","h","r","e","e">>, 10)
         = << <<"-"," ","o","n","e"," ","t","w","o">>, <<" "," ","t","h","r","e","e">> >>
    /\ (call.fn = "wrap_markdown" /\ IsBulletLine(call.text)) =>
         LET width == Max(call.width, 10)
             out == call.out
         IN  /\ Len(out) >= 1
             /\ starts_with(out[1], SubSeq(call.text, 1, 2))
             /\ \A i \in 2..Len(out) : starts_with(out[i], <<" ", " ">>)
             /\ \A i \in 1..Len(out) :
                  Len(split_whitespace(StripPrefix(out[i]))) > 1 => len(out[i]) <= width
             /\ \A i \in 1..(Len(out) - 1) :
                  len(out[i]) + 1 + len(split_whitespace(out[i + 1])[1]) > width
    /\ (call.fn = "wrap_markdown" /\ ~IsBulletLine(call.text)
           /\ \A i \in 1..Len(call.text) : call.text[i] # "\n") =>
         \A i \in 1..Len(call.out) :
            call.out[i] = <<>> \/ ~is_whitespace(call.out[i][1])

RECURSIVE WordsOfLines(_)
\* The whitespace-delimited words of the lines, line after line.
WordsOfLines(lines) ==
    IF lines = <<>> THEN <<>>
    ELSE split_whitespace(Head(lines)) \o WordsOfLines(Tail(lines))

\* C15: the words of wrap_markdown's output lines, taken line after line,
\* are exactly the whitespace-delimited words of the body, in order, a
\* bullet marker counting as a word.
C15_WrapKeepsWords ==
    (call.fn = "wrap_markdown") =>
        WordsOfLines(call.out) = split_whitespace(call.text)

\* A bullet of two words that do not fit on one line of width 10 was wrapped
\* onto two lines.
C15_Witness ==
    /\ call.fn = "wrap_markdown"
    /\ call.width = 10
    /\ call.out = << <<"-", " ", "c", "d", "E_ACUTE", "f">>,
                     <<" ", " ", "c", "d", "E_ACUTE", "f">> >>

\* wrap_markdown was called at a width of 10 or more with a text of one
\* line and gave one output line.
OneLineWrapped ==
    /\ call.fn = "wrap_markdown"
    /\ call.width >= 10
    /\ \A i \in 1..Len(call.text) : call.text[i] # "\n"
    /\ Len(call.out) = 1

\* C16 as stated: for every single-line input L and width w >= 10 such that
\* wrap(L, w) is one output line O, wrap(O, w) is that one line O again.
C16_RewrapSame ==
    OneLineWrapped => wrap_markdown(call.out[1], call.width) = call.out

\* C16 as amended: the same, for an output line O that is not empty; the
\* one empty line that a whitespace-only input gives wraps to no line.
C16_RewrapSameNonEmpty ==
    /\ (OneLineWrapped /\ call.out[1] # <<>>)
          => wrap_markdown(call.out[1], call.width) = call.out
    /\ (OneLineWrapped /\ call.out[1] = <<>>)
          => wrap_markdown(call.out[1], call.width) = <<>>

\* A bullet with two spaces after its marker was wrapped to one line with
\* one space, and wrapping that line again changes nothing.
C16_Witness ==
    /\ OneLineWrapped
    /\ call.text = <<"-", " ", " ", "a", "b">>
    /\ call.out = << <<"-", " ", "a", "b">> >>
    /\ wrap_markdown(call.out[1], call.width) = call.out

\* C17: the event loop enters with the frame dirty and nothing polled, so
\* the first frame is rendered before any input is read; while the frame is
\* dirty the next step is the render pass, not a poll, and it leaves the
\* frame clean; while the frame is clean the next step is a poll; a key that
\* does not quit and a resize mark the frame dirty, a poll timeout does not
\* and changes nothing; consequently the AppState a key action reads is as a
\* render pass for the current content, selection and terminal size left
\* it, content_scroll_max included.
C17_RenderBetweenEvents ==
    /\ [][(pc = "enter_screen" /\ pc' = "run_app")
            => (needs_redraw' /\ event' = NoEvent)]_vars
    /\ [][(pc = "run_app" /\ needs_redraw)
            => /\ event' \in {NoEvent, IoError}
               /\ pc' = "run_app" =>
                    (~needs_redraw' /\ state' = render(data, state, size, "none"))]_vars
    /\ [][(Rendered /\ pc' = "run_app")
            => event'.kind \in {"Timeout", "Key", "Resize", "Other"}]_vars
    /\ [][(Rendered /\ pc' = "run_app" /\ event'.kind \in {"Key", "Resize"})
            => needs_redraw']_vars
    /\ [][(Rendered /\ event'.kind = "Timeout")
            => (~needs_redraw' /\ state' = state /\ pc' = "run_app")]_vars
    /\ [](Rendered => render(data, state, size, "none") = state)

\* PageDown has scrolled the body of an entry below the first of its tab: a
\* render pass after the selection moved gave the bound it scrolled to.
C17_Witness ==
    /\ KeyHandled
    /\ event.code = "PageDown"
    /\ state.list_index > 0
    /\ state.content_scroll_max > 0
    /\ state.content_scroll = state.content_scroll_max

\* A render pass that returns Ok.
RenderStep == pc = "run_app" /\ needs_redraw /\ pc' = "run_app" /\ ~needs_redraw'

\* The posts of the active tab, none on the About tab.
ActivePosts ==
    IF data.tabs[state.tab_index + 1].kind = "Content"
    THEN data.tabs[state.tab_index + 1].posts
    ELSE <<>>

\* The number of lines of the selected entry's body, wrapped at the width
\* of the detail pane that the terminal size gives.
WrappedLineCount ==
    Len(wrap_markdown(ActivePosts[state.list_index + 1].body,
                      content_width(saturating_sub(size.cols, 4))))

\* The rows the terminal size leaves for the body of the selected entry.
AvailableDetailHeight ==
    available(ActivePosts[state.list_index + 1], size.rows, content_top + 3)

\* C18: a render pass of a listing tab with a selected entry leaves
\* content_scroll_max = max(0, wrapped_line_count - available_detail_height)
\* and content_scroll = min(content_scroll before the pass,
\* content_scroll_max); on a listing tab without entries it leaves
\* content_scroll_max = 0.
C18_RenderRecomputesScrollMax ==
    [][(RenderStep /\ data.tabs[state.tab_index + 1].kind = "Content") =>
          IF ActivePosts = <<>>
          THEN state'.content_scroll_max = 0
          ELSE /\ state'.content_scroll_max
                    = Max(0, WrappedLineCount - AvailableDetailHeight)
               /\ state'.content_scroll
                    = Min(state.content_scroll, state'.content_scroll_max)]_vars

\* A render pass has left a body scrolled to its bound, the bound being the
\* lines that the rows of the terminal do not hold, and rows being held.
C18_Witness ==
    /\ Rendered
    /\ ActivePosts # <<>>
    /\ AvailableDetailHeight > 0
    /\ state.content_scroll_max = WrappedLineCount - AvailableDetailHeight
    /\ state.content_scroll_max > 0
    /\ state.content_scroll = state.content_scroll_max

\* C19 as stated: a render pass leaves list_scroll = 0 if total <= height;
\* else list_index if list_index is above the window; else
\* list_index - height + 1 if list_index is at or below list_scroll + height;
\* else min(list_scroll, total - height); total being the number of items
\* and height the visible list height.
C19_ClampScrollCases ==
    [][RenderStep =>
         LET total == ItemCount
             height == VisibleListHeight
             list_index == state.list_index
             list_scroll == state.list_scroll
         IN  state'.list_scroll =
                IF total <= height THEN 0
                ELSE IF list_index < list_scroll THEN list_index
                ELSE IF list_index >= list_scroll + height THEN list_index - height + 1
                ELSE Min(list_scroll, total - height)]_vars

\* C19 as amended: the same, except that with a visible list height of 0
\* and items present the list_index at or below the window gives list_index
\* itself, the subtraction of height - 1 being a saturating one; and with
\* the four links of About, height 2 and link 3 selected, list_scroll is 2
\* whatever it was.
C19_ClampScrollSaturating ==
    /\ [][RenderStep =>
            LET total == ItemCount
                height == VisibleListHeight
                list_index == state.list_index
                list_scroll == state.list_scroll
            IN  state'.list_scroll =
                   IF total <= height THEN 0
                   ELSE IF list_index < list_scroll THEN list_index
                   ELSE IF list_index >= list_scroll + height
                        THEN IF height >= 1 THEN list_index - height + 1 ELSE list_index
                        ELSE Min(list_scroll, total - height)]_vars
    /\ [](\A list_scroll \in 0..3 : clamp_scroll(list_scroll, 3, 2, Len(ABOUT_LINKS)) = 2)

\* A render pass of About with its four links and a visible height of 2 has
\* scrolled the list to 2 for the selected link 3.
C19_Witness ==
    /\ Rendered
    /\ state.tab_index = 0
    /\ ItemCount = 4
    /\ VisibleListHeight = 2
    /\ state.list_index = 3
    /\ state.list_scroll = 2

\* C20: a tab switch to an index that is not below the number of tabs
\* leaves every field of the AppState unchanged, so that tab_index is below
\* the number of tabs in every reachable state.
C20_SwitchOutOfBounds ==
    /\ [][(KeyStep({"1", "2", "3", "4", "5", "6", "g"})
             /\ TabOfKey(event'.code) >= Len(data.tabs))
            => state' = state]_vars
    /\ [](state.tab_index < Len(data.tabs))

\* With two tabs, the key 6 was handled on the second tab with its second
\* entry selected, and the selection is still there.
C20_Witness ==
    /\ KeyHandled
    /\ event.code = "6"
    /\ Len(data.tabs) = 2
    /\ state.tab_index = 1
    /\ state.list_index = 1

\* C21: a render pass, complete or cut short by an I/O error, changes none
\* of tab_index, list_index and status, so that list_scroll, content_scroll
\* and content_scroll_max are the only fields of the AppState it may
\* change; and a resize event changes no field of the AppState, it takes
\* the new size and marks the frame dirty for the render pass that follows.
C21_RenderKeepsSelection ==
    /\ [][(pc = "run_app" /\ needs_redraw)
            => /\ state'.tab_index = state.tab_index
               /\ state'.list_index = state.list_index
               /\ state'.status = state.status]_vars
    /\ [][(Rendered /\ event'.kind = "Resize")
            => (state' = state /\ needs_redraw' /\ size' # size)]_vars

\* A render pass has scrolled the list of a listing tab down to a selected
\* entry below the first while a status message of open selected stands.
C21_Witness ==
    /\ Rendered
    /\ state.tab_index > 0
    /\ state.list_index > 0
    /\ state.list_scroll > 0
    /\ state.status # None
    /\ state.status # Some(ContentMissing)

\* The text is one source line: it has a character and no line feed.
IsOneLine(text) == text # <<>> /\ \A i \in 1..Len(text) : text[i] # "\n"

\* C22 as stated: wrap_markdown gives at least one output line for every
\* source line of the body; a whitespace-only source line gives exactly one
\* empty output line; and a source line with no word after its bullet
\* marker, a bare "- " or "* ", gives exactly one output line that is the
\* two-character marker.
C22_LinePerSourceLine ==
    (call.fn = "wrap_markdown") =>
        /\ Len(call.out) >= Len(lines_of(call.text))
        /\ (IsOneLine(call.text) /\ trim(call.text) = <<>>) => call.out = << <<>> >>
        /\ (IsBulletLine(call.text) /\ trim(SubSeq(call.text, 3, Len(call.text))) = <<>>)
              => call.out = << SubSeq(call.text, 1, 2) >>

C24_RowsDisjoint ==
    Rendered =>
        (list_rows(data, state, size) \cup body_rows(data, state, size))
            \cap {status_row(size), help_row(size)} = {}

\* The label of the selected item: a link's label, a post's title.
SelectedLabel ==
    IF data.tabs[state.tab_index + 1].kind = "About"
    THEN data.tabs[state.tab_index + 1].links[state.list_index + 1].label
    ELSE data.tabs[state.tab_index + 1].posts[state.list_index + 1].title

\* C7: open selected stores "Opened {label}" when the opener succeeds and
\* "Failed to open {label} ({error})" when it fails, for the selected link or
\* entry, changes no field of the AppState but the status, and does not end
\* the event loop.
C7_OpenSetsStatusOnly ==
    [][KeyStep({"o", "Enter"}) =>
        /\ pc' = "run_app"
        /\ [state' EXCEPT !.status = state.status] = state
        /\ IF state.list_index < ItemCount
           THEN /\ open_result' # None
                /\ state'.status =
                     IF open_result'[1] = "Ok"
                     THEN Some("Opened " \o SelectedLabel)
                     ELSE Some("Failed to open " \o SelectedLabel
                               \o " (" \o open_result'[1] \o ")")
           ELSE open_result' = None /\ state'.status = state.status]_vars

\* The opener failed on the third link and the loop goes on.
C7_Witness ==
    /\ KeyHandled
    /\ event.code = "Enter"
    /\ state.tab_index = 0
    /\ state.list_index = 2
    /\ open_result = Some("No such file or directory (os error 2)")
    /\ state.status = Some("Failed to open GitHub (No such file or directory (os error 2))")

\* C8: when main has returned, a terminal that is in raw mode has had the
\* call that leaves raw mode made on it: no terminal I/O failure ends the
\* session without an attempt to restore the terminal.
C8_RestoreAttempted ==
    (pc = "exit" /\ raw_mode) => "disable_raw_mode" \in term_ops

\* C9 as stated: an input event that changes no navigation state, and is no
\* resize, leaves the frame clean, so that no render pass follows it.
C9_NoRenderWithoutChange ==
    [][(pc = "run_app" /\ ~needs_redraw /\ pc' = "run_app"
          /\ event'.kind # "Resize" /\ state' = state)
        => ~needs_redraw']_vars

\* C9 as amended: the frame is rendered only when it is marked dirty; while
\* it is clean the loop polls, and what it polls marks the frame dirty
\* exactly if it is a key other than a quit key, whether or not the key
\* changed the navigation state, or a resize.
C9_RenderOnlyWhenDirty ==
    /\ [][(pc = "run_app" /\ ~needs_redraw) => event' # NoEvent]_vars
    /\ [][(pc = "run_app" /\ ~needs_redraw /\ pc' = "run_app")
            => (needs_redraw' <=> event'.kind \in {"Key", "Resize"})]_vars

\* A key without a binding has marked the frame dirty.
C9_Witness ==
    /\ KeyHandled
    /\ event.code = "x"

\* q, Esc or c with CONTROL.
QuitKey(e) ==
    e.kind = "Key" /\ (e.code \in {"q", "Esc"} \/ (e.code = "c" /\ e.ctrl))

\* C10: the event loop ends exactly when a quit key is handled or terminal
\* I/O fails; a quit key changes no field of the AppState; no other key ends
\* the loop; and once the loop has ended no render pass follows.
C10_QuitEndsLoop ==
    /\ [][(pc = "run_app" /\ pc' # "run_app")
            => \/ QuitKey(event') /\ state' = state /\ result' = Some("Ok")
               \/ event' = IoError /\ result' = Some("Err")]_vars
    /\ [][(pc = "run_app" /\ ~needs_redraw /\ event'.kind = "Key")
            => (QuitKey(event') <=> pc' # "run_app")]_vars
    /\ [][(pc = "run_app" /\ event' = IoError) => pc' # "run_app"]_vars
    /\ [][(pc \in {"disable_raw", "leave_screen", "exit"})
            => (pc' \in {"disable_raw", "leave_screen", "exit"} /\ state' = state)]_vars

\* Ctrl-C has ended the loop with Ok.
C10_Witness ==
    /\ pc = "disable_raw"
    /\ event = Key("c", TRUE)
    /\ result = Some("Ok")
    /\ state.list_index > 0

====
